---- MODULE Spec2Model ----
(***************************************************************************)
(* Model of adfox-account-campaigns: the two entry points (main() of       *)
(* __init__.py and the script body of __main__.py) run the same linear     *)
(* pipeline: credential check, one HTTP GET, decode, truncate, XML parse,  *)
(* XML-to-mapping conversion, campaign extraction (with field coercion in  *)
(* __main__.py), status statistics and the JSON file.                      *)
(*                                                                         *)
(* Python values are records of one shape (kind, s, n, ents, items) so     *)
(* that values of different Python types compare unequal instead of        *)
(* being incomparable.  A Python str is a sequence of characters.  A dict  *)
(* is its sequence of (key, val) entries in insertion order.               *)
(*                                                                         *)
(* Response bodies and decoded texts are sequences of lexical tokens       *)
(* (start tag, end tag, character data, raw byte); an offset into a text   *)
(* is a number of tokens and the literal '</response>' is one token long.  *)
(***************************************************************************)
EXTENDS Integers, Sequences, FiniteSets, TLC

\* ------------------------------------------------------------------------
\* Bounds of the explored inputs
\* ------------------------------------------------------------------------
MaxRows == 2
MaxJunk == 2

\* ------------------------------------------------------------------------
\* Python values
\* ------------------------------------------------------------------------
None == [kind |-> "none", s |-> <<>>, n |-> 0, ents |-> <<>>, items |-> <<>>]

Str(cs) == [kind |-> "str", s |-> cs, n |-> 0, ents |-> <<>>, items |-> <<>>]

Num(k) == [kind |-> "int", s |-> <<>>, n |-> k, ents |-> <<>>, items |-> <<>>]

Dict(es) == [kind |-> "dict", s |-> <<>>, n |-> 0, ents |-> es, items |-> <<>>]

List(xs) == [kind |-> "list", s |-> <<>>, n |-> 0, ents |-> <<>>, items |-> xs]

\* bool(v)
Truthy(v) ==
  CASE v.kind = "none" -> FALSE
    [] v.kind = "str" -> v.s # <<>>
    [] v.kind = "int" -> v.n # 0
    [] v.kind = "dict" -> v.ents # <<>>
    [] OTHER -> v.items # <<>>

\* The characters of the tag names and literals the code searches for.
Spell ==
  "response" :> <<"r","e","s","p","o","n","s","e">> @@
  "result" :> <<"r","e","s","u","l","t">> @@
  "data" :> <<"d","a","t","a">> @@
  "row" :> <<"r","o","w">> @@
  "row0" :> <<"r","o","w","0">> @@
  "row1" :> <<"r","o","w","1">> @@
  "row2" :> <<"r","o","w","2">> @@
  "row3" :> <<"r","o","w","3">> @@
  "rows" :> <<"r","o","w","s">> @@
  "total" :> <<"t","o","t","a","l">> @@
  "error" :> <<"e","r","r","o","r">> @@
  "unknown" :> <<"u","n","k","n","o","w","n">>

\* key.startswith(prefix), on character sequences
StartsWith(cs, prefix) ==
  /\ Len(cs) >= Len(prefix)
  /\ SubSeq(cs, 1, Len(prefix)) = prefix

\* sub in text, for two str
IsSubstring(sub, cs) ==
  \E i \in 0..(Len(cs) - Len(sub)) : SubSeq(cs, i + 1, i + Len(sub)) = sub

\* key in d, for a dict d
HasKey(d, key) == \E i \in 1..Len(d.ents) : d.ents[i].key = key

\* d[key], for a dict d that has the key
Lookup(d, key) ==
  d.ents[CHOOSE i \in 1..Len(d.ents) : d.ents[i].key = key].val

\* d[key] = val: an existing key keeps its place, a new key goes last
DictSet(d, key, val) ==
  IF HasKey(d, key)
  THEN Dict([i \in 1..Len(d.ents) |->
               IF d.ents[i].key = key
               THEN [key |-> key, val |-> val]
               ELSE d.ents[i]])
  ELSE Dict(Append(d.ents, [key |-> key, val |-> val]))

\* d.get(key, default)
DictGet(d, key, default) == IF HasKey(d, key) THEN Lookup(d, key) ELSE default

\* The operator `in` of Python with a str on the left: "" when it yields a
\* bool (field r), else the exception it raises.
PyContains(container, name) ==
  CASE container.kind = "dict" ->
         [exc |-> "", r |-> HasKey(container, name)]
    [] container.kind = "str" ->
         [exc |-> "", r |-> IsSubstring(Spell[name], container.s)]
    [] container.kind = "list" ->
         [exc |-> "",
          r |-> \E i \in 1..Len(container.items) :
                  container.items[i] = Str(Spell[name])]
    [] OTHER -> [exc |-> "TypeError", r |-> FALSE]

\* container[name] with a str subscript
PyGetItem(container, name) ==
  CASE container.kind = "dict" /\ HasKey(container, name) ->
         [exc |-> "", r |-> Lookup(container, name)]
    [] container.kind = "dict" -> [exc |-> "KeyError", r |-> None]
    [] OTHER -> [exc |-> "TypeError", r |-> None]

\* ------------------------------------------------------------------------
\* int(v) of Python for the values the converter produces
\* ------------------------------------------------------------------------
Digits == <<"0","1","2","3","4","5","6","7","8","9">>

IsDigit(c) == \E d \in 1..10 : Digits[d] = c

DigitVal(c) == (CHOOSE d \in 1..10 : Digits[d] = c) - 1

RECURSIVE DigitsValue(_, _)
DigitsValue(cs, acc) ==
  IF cs = <<>> THEN acc
  ELSE DigitsValue(Tail(cs), 10 * acc + DigitVal(Head(cs)))

RECURSIVE Strip(_)
Strip(cs) ==
  IF cs # <<>> /\ Head(cs) = " " THEN Strip(Tail(cs))
  ELSE IF cs # <<>> /\ cs[Len(cs)] = " " THEN Strip(SubSeq(cs, 1, Len(cs) - 1))
  ELSE cs

PyInt(v) ==
  CASE v.kind = "int" -> [exc |-> "", n |-> v.n]
    [] v.kind = "str" ->
         LET t == Strip(v.s)
             signed == t # <<>> /\ Head(t) \in {"-", "+"}
             ds == IF signed THEN Tail(t) ELSE t
         IN IF ds # <<>> /\ \A i \in 1..Len(ds) : IsDigit(ds[i])
            THEN [exc |-> "",
                  n |-> IF signed /\ Head(t) = "-"
                        THEN 0 - DigitsValue(ds, 0)
                        ELSE DigitsValue(ds, 0)]
            ELSE [exc |-> "ValueError", n |-> 0]
    [] OTHER -> [exc |-> "TypeError", n |-> 0]

\* ------------------------------------------------------------------------
\* XML: elements, tokens, xml.etree.ElementTree.fromstring
\* ------------------------------------------------------------------------
El(tag, text, kids) == [tag |-> tag, text |-> text, kids |-> kids]

Open(tag) == [k |-> "open", tag |-> tag, s |-> <<>>]

Close(tag) == [k |-> "close", tag |-> tag, s |-> <<>>]

Chars(cs) == [k |-> "text", tag |-> "", s |-> cs]

RawByte(b) == [k |-> "byte", tag |-> "", s |-> <<b>>]

NoElement == El("", None, <<>>)

\* The parser is a push-down automaton over the tokens: stack holds the
\* open elements, root the closed document element (done says there is
\* one), failed that the text is not well-formed.  Character data right
\* after a start tag is the element's text; character data after a child
\* is a tail, which xml_to_dict never reads.
ParserStart ==
  [stack |-> <<>>, done |-> FALSE, root |-> NoElement, failed |-> FALSE]

fromstring_step(st, t) ==
  LET depth == Len(st.stack)
  IN IF st.failed THEN st
     ELSE IF t.k = "open" /\ ~st.done
     THEN [st EXCEPT !.stack = Append(@, El(t.tag, None, <<>>))]
     ELSE IF t.k = "text" /\ depth > 0
     THEN LET top == st.stack[depth]
          IN IF top.kids = <<>>
             THEN [st EXCEPT !.stack[depth] =
                               El(top.tag, Str(top.text.s \o t.s), <<>>)]
             ELSE st
     ELSE IF t.k = "close" /\ depth > 0 /\ st.stack[depth].tag = t.tag
     THEN LET top == st.stack[depth]
              rest == SubSeq(st.stack, 1, depth - 1)
          IN IF depth = 1
             THEN [st EXCEPT !.stack = rest, !.done = TRUE, !.root = top]
             ELSE LET par == rest[depth - 1]
                  IN [st EXCEPT !.stack =
                        [rest EXCEPT ![depth - 1] =
                           El(par.tag, par.text, Append(par.kids, top))]]
     ELSE [st EXCEPT !.failed = TRUE]

\* The automaton run over the tokens lo..hi, from state st
RECURSIVE fromstring_run(_, _, _, _)
fromstring_run(toks, lo, hi, st) ==
  IF lo > hi THEN st
  ELSE IF lo = hi THEN fromstring_step(st, toks[lo])
  ELSE LET mid == (lo + hi) \div 2
           left == fromstring_run(toks, lo, mid, st)
       IN IF left.failed THEN left
          ELSE fromstring_run(toks, mid + 1, hi, left)

\* Anything but one complete element is a ParseError
fromstring(toks) ==
  LET st == fromstring_run(toks, 1, Len(toks), ParserStart)
      ok == ~st.failed /\ st.done /\ st.stack = <<>>
  IN [exc |-> IF ok THEN "" ELSE "ParseError",
      root |-> IF ok THEN st.root ELSE NoElement]

\* ------------------------------------------------------------------------
\* clean_xml_response
\* ------------------------------------------------------------------------
\* xml_content.rfind('</response>'): the offset of the last occurrence, -1
\* when there is none
rfind_response(xml_content) ==
  LET hits == {i \in 1..Len(xml_content) : xml_content[i] = Close("response")}
  IN IF hits = {} THEN -1
     ELSE (CHOOSE i \in hits : \A j \in hits : j <= i) - 1

\* len('</response>') in tokens
LenCloseResponse == Len(<<Close("response")>>)

clean_xml_response_no_len(xml_content) ==
  LET last_response_end == rfind_response(xml_content)
  IN IF last_response_end # -1
     THEN SubSeq(xml_content, 1, last_response_end)
     ELSE xml_content

clean_xml_response(xml_content) ==
  LET last_response_end == rfind_response(xml_content)
  IN IF last_response_end # -1
     THEN SubSeq(xml_content, 1, last_response_end + LenCloseResponse)
     ELSE xml_content

\* ------------------------------------------------------------------------
\* xml_to_dict
\* ------------------------------------------------------------------------
\* The body of the loop over the children: the first value under a tag is
\* stored as it is, the second turns the entry into a list, later ones
\* are appended.
xml_to_dict_put_overwrite(result, tag, child_data) ==
  DictSet(result, tag, child_data)

xml_to_dict_put(result, tag, child_data) ==
  IF HasKey(result, tag)
  THEN LET old == Lookup(result, tag)
           lst == IF old.kind # "list" THEN List(<<old>>) ELSE old
       IN DictSet(result, tag, List(Append(lst.items, child_data)))
  ELSE DictSet(result, tag, child_data)

\* (the loop tests the kind of the mapping it has built, which is always
\* a dict, so that each step is evaluated before the next one starts)
RECURSIVE xml_to_dict(_)
RECURSIVE xml_to_dict_loop(_, _, _)
xml_to_dict_loop(kids, i, result) ==
  IF i > Len(kids) THEN result
  ELSE LET next == xml_to_dict_put(result, kids[i].tag, xml_to_dict(kids[i]))
       IN IF next.kind = "dict"
          THEN xml_to_dict_loop(kids, i + 1, next)
          ELSE next

xml_to_dict(element) ==
  IF Len(element.kids) > 0
  THEN xml_to_dict_loop(element.kids, 1, Dict(<<>>))
  ELSE element.text

\* ------------------------------------------------------------------------
\* parse_campaign_value (__main__.py) and parse_campaigns_data
\* ------------------------------------------------------------------------
FIELD_NAMES ==
  <<"maxImpressions", "maxClicks", "maxImpressionsPerDay", "maxClicksPerDay",
    "maxImpressionsPerHour", "maxClicksPerHour", "impressionsHour",
    "clicksHour", "impressionsToday", "clicksToday", "impressionsAll",
    "clicksAll", "priority", "status",
    "level", "cpm", "cpc", "kind_id", "sectorID",
    "rotationMethodID", "trafficPercents", "logicType">>

\* value[field_name] = int(value[field_name]) if value[field_name] else 0
coerce_field(value, field_name) ==
  LET g == PyGetItem(value, field_name)
  IN IF g.exc # ""
     THEN [exc |-> g.exc, value |-> value]
     ELSE IF ~Truthy(g.r)
     THEN [exc |-> "", value |-> DictSet(value, field_name, Num(0))]
     ELSE LET p == PyInt(g.r)
          IN IF p.exc # ""
             THEN [exc |-> p.exc, value |-> value]
             ELSE [exc |-> "", value |-> DictSet(value, field_name, Num(p.n))]

RECURSIVE parse_campaign_value_loop(_, _)
parse_campaign_value_loop(value, i) ==
  IF i > Len(FIELD_NAMES) THEN [exc |-> "", value |-> value]
  ELSE LET c == coerce_field(value, FIELD_NAMES[i])
       IN IF c.exc # "" THEN c
          ELSE parse_campaign_value_loop(c.value, i + 1)

parse_campaign_value(value) == parse_campaign_value_loop(value, 1)

\* key.startswith('row') and isinstance(value, dict)
is_row(key, value) ==
  StartsWith(Spell[key], Spell["row"]) /\ value.kind = "dict"

\* The loop over data.items(); __main__.py coerces each row before it
\* appends it.
RECURSIVE parse_campaigns_data_loop(_, _, _, _)
parse_campaigns_data_loop(module, ents, i, campaigns) ==
  IF i > Len(ents) THEN [exc |-> "", campaigns |-> campaigns]
  ELSE IF ~is_row(ents[i].key, ents[i].val)
  THEN parse_campaigns_data_loop(module, ents, i + 1, campaigns)
  ELSE IF module = "__init__"
  THEN parse_campaigns_data_loop(module, ents, i + 1,
                                 Append(campaigns, ents[i].val))
  ELSE LET c == parse_campaign_value(ents[i].val)
       IN IF c.exc # ""
          THEN [exc |-> c.exc, campaigns |-> <<>>]
          ELSE parse_campaigns_data_loop(module, ents, i + 1,
                                         Append(campaigns, c.value))

parse_campaigns_data(module, xml_data) ==
  LET none == [exc |-> "", campaigns |-> <<>>]
      raise(e) == [exc |-> e, campaigns |-> <<>>]
      c1 == PyContains(xml_data, "result")
      g1 == PyGetItem(xml_data, "result")
      c2 == PyContains(g1.r, "data")
      g2 == PyGetItem(g1.r, "data")
  IN IF c1.exc # "" THEN raise(c1.exc)
     ELSE IF ~c1.r THEN none
     ELSE IF g1.exc # "" THEN raise(g1.exc)
     ELSE IF c2.exc # "" THEN raise(c2.exc)
     ELSE IF ~c2.r THEN none
     ELSE IF g2.exc # "" THEN raise(g2.exc)
     ELSE IF g2.r.kind # "dict" THEN raise("AttributeError")
     ELSE parse_campaigns_data_loop(module, g2.r.ents, 1, <<>>)

\* ------------------------------------------------------------------------
\* Status statistics and print_campaign_stats
\* ------------------------------------------------------------------------
LIMIT == 100

\* The printed label of a status: an entry of status_names, or the generic
\* label with the raw status in it.
Label(name) == [generic |-> FALSE, name |-> name, raw |-> None]

GenericLabel(status) == [generic |-> TRUE, name |-> "status", raw |-> status]

status_names ==
  Dict(<<[key |-> Str(<<"0">>), val |-> Label("active")],
         [key |-> Str(<<"1">>), val |-> Label("paused")],
         [key |-> Str(<<"2">>), val |-> Label("finished")]>>)

\* status_names.get(status, f'... {status}')
status_name(status) == DictGet(status_names, status, GenericLabel(status))

\* status_counts[status] = status_counts.get(status, 0) + 1 for each
\* campaign; a dict or a list is no key of a dict
RECURSIVE count_statuses(_, _, _)
count_statuses(campaigns, i, status_counts) ==
  IF i > Len(campaigns) THEN [exc |-> "", status_counts |-> status_counts]
  ELSE LET status == DictGet(campaigns[i], "status", Str(Spell["unknown"]))
       IN IF status.kind \in {"dict", "list"}
          THEN [exc |-> "TypeError", status_counts |-> status_counts]
          ELSE count_statuses(campaigns, i + 1,
                 DictSet(status_counts, status,
                         DictGet(status_counts, status, 0) + 1))

\* The printed lines: one per entry of status_counts, in its order
status_lines(status_counts) ==
  [i \in 1..Len(status_counts.ents) |->
     [status |-> status_counts.ents[i].key,
      label |-> status_name(status_counts.ents[i].key),
      count |-> status_counts.ents[i].val]]

\* sum(int(c.get(field, 0) or 0) for c in campaigns)
RECURSIVE sum_field(_, _, _, _)
sum_field(campaigns, field, i, acc) ==
  IF i > Len(campaigns) THEN [exc |-> "", n |-> acc]
  ELSE LET v == DictGet(campaigns[i], field, Num(0))
           p == PyInt(IF Truthy(v) THEN v ELSE Num(0))
       IN IF p.exc # "" THEN [exc |-> p.exc, n |-> 0]
          ELSE sum_field(campaigns, field, i + 1, acc + p.n)

\* (total_clicks / total_impressions) * 100 as printed with three decimals:
\* the number of thousandths of a percent, rounded to the nearest
overall_ctr_no_percent(total_clicks, total_impressions) ==
  (2 * 1000 * total_clicks + total_impressions) \div (2 * total_impressions)

overall_ctr(total_clicks, total_impressions) ==
  (2 * 100 * 1000 * total_clicks + total_impressions)
    \div (2 * total_impressions)

NoStats ==
  [lines |-> <<>>, totals |-> FALSE, total_impressions |-> 0,
   total_clicks |-> 0, ctr_shown |-> FALSE, ctr |-> 0]

\* CTR is printed under  if total_impressions > 0
ctr_guard(total_impressions) == total_impressions > 0

\* print_campaign_stats of __init__.py for a non-empty list
print_campaign_stats(campaigns) ==
  LET sc == count_statuses(campaigns, 1, Dict(<<>>))
      imp == sum_field(campaigns, "impressionsAll", 1, 0)
      clk == sum_field(campaigns, "clicksAll", 1, 0)
  IN IF sc.exc # "" THEN [exc |-> sc.exc, stats |-> NoStats]
     ELSE IF imp.exc # "" THEN [exc |-> imp.exc, stats |-> NoStats]
     ELSE IF clk.exc # "" THEN [exc |-> clk.exc, stats |-> NoStats]
     ELSE [exc |-> "",
           stats |->
             [lines |-> status_lines(sc.status_counts),
              totals |-> TRUE,
              total_impressions |-> imp.n,
              total_clicks |-> clk.n,
              ctr_shown |-> ctr_guard(imp.n),
              ctr |-> IF ctr_guard(imp.n)
                      THEN overall_ctr(clk.n, imp.n) ELSE 0]]

\* The status statistics of the __main__.py script body
script_status_stats(campaigns) ==
  LET sc == count_statuses(campaigns, 1, Dict(<<>>))
  IN IF sc.exc # "" THEN [exc |-> sc.exc, stats |-> NoStats]
     ELSE [exc |-> "",
           stats |-> [NoStats EXCEPT !.lines = status_lines(sc.status_counts)]]

\* ------------------------------------------------------------------------
\* The responses of the service that the runs are checked on
\* ------------------------------------------------------------------------
Leaf(tag, text) == El(tag, text, <<>>)

\* The children of a row that has the 22 numeric fields: status,
\* impressionsAll and clicksAll as given, cpc empty, the others "0"
FullRow(status, impressions, clicks) ==
  <<Leaf("ID", Str(<<"5">>))>> \o
  [i \in 1..Len(FIELD_NAMES) |->
     Leaf(FIELD_NAMES[i],
          CASE FIELD_NAMES[i] = "status" -> status
            [] FIELD_NAMES[i] = "impressionsAll" -> impressions
            [] FIELD_NAMES[i] = "clicksAll" -> clicks
            [] FIELD_NAMES[i] = "cpc" -> None
            [] OTHER -> Str(<<"0">>))]

\* The row of the specification's first scenario: four fields only
ScenarioRow ==
  <<Leaf("ID", Str(<<"5">>)), Leaf("status", Str(<<"0">>)),
    Leaf("impressionsAll", Str(<<"1","0","0","0">>)),
    Leaf("clicksAll", Str(<<"1","0">>))>>

RowKinds ==
  { FullRow(Str(<<"0">>), Str(<<"1","0","0","0">>), Str(<<"1","0">>)),
    FullRow(Str(<<"1">>), Str(<<"0">>), None),
    FullRow(Str(<<"2">>), Str(<<"-","5">>), Str(<<"1","0">>)),
    FullRow(Str(<<"7">>), None, Str(<<" ","3">>)),
    FullRow(Str(<<"0">>), Str(<<"a","b","c">>), Str(<<"1","0">>)),
    ScenarioRow,
    <<Leaf("ID", Str(<<"6">>))>> }

RowTags == <<"row0", "row1", "row2", "row3">>

\* The children of data: the rows under row0, row1, ... ("plain"), all
\* under row0 ("repeat"), or between two stray leaves, the first with a
\* tag that starts with 'row' ("strays")
Layouts == {"plain", "repeat", "strays"}

DataOf(rows, layout) ==
  El("data", None,
     (IF layout = "strays" THEN <<Leaf("rows", Str(<<"2">>))>> ELSE <<>>) \o
     [i \in 1..Len(rows) |->
        El(IF layout = "repeat" THEN RowTags[1] ELSE RowTags[i],
           None, rows[i])] \o
     (IF layout = "strays" THEN <<Leaf("total", Str(<<"3">>))>> ELSE <<>>))

Wrap(data_elements) ==
  El("response", None, <<El("result", None, data_elements)>>)

RowLists == UNION {[1..n -> RowKinds] : n \in 0..MaxRows}

\* Documents with rows under result.data
RowDocs ==
  { Wrap(<<DataOf(rows, layout)>>) :
      rows \in RowLists, layout \in Layouts }

\* Documents with another shape at result or at result.data
ShapeDocs ==
  { Leaf("response", None),
    Leaf("error", Str(<<"4">>)),
    Leaf("response", Str(Spell["result"])),
    El("response", None, <<Leaf("error", Str(<<"4">>))>>),
    El("response", None, <<Leaf("result", None)>>),
    El("response", None, <<Leaf("result", Str(<<"a","b","c">>))>>),
    El("response", None, <<Leaf("result", Str(<<"x">> \o Spell["data"]))>>),
    El("response", None, <<Leaf("result", Str(Spell["data"])),
                           Leaf("result", Str(<<"x">>))>>),
    El("response", None, <<El("result", None,
                              <<Leaf("total", Str(<<"3">>))>>)>>),
    Wrap(<<Leaf("data", None)>>),
    Wrap(<<Leaf("data", Str(<<"t">>))>>),
    Wrap(<<DataOf(<<ScenarioRow>>, "plain"),
           DataOf(<<ScenarioRow>>, "plain")>>) }

Docs == RowDocs \cup ShapeDocs

NumRowElements(doc) ==
  IF doc \in RowDocs
  THEN Cardinality({i \in 1..Len(doc.kids[1].kids[1].kids) :
                      doc.kids[1].kids[1].kids[i].kids # <<>>})
  ELSE 0

RECURSIVE Ser(_)
RECURSIVE SerAll(_, _)
SerAll(kids, i) ==
  IF i > Len(kids) THEN <<>> ELSE Ser(kids[i]) \o SerAll(kids, i + 1)

\* The document as the service writes it
Ser(element) ==
  <<Open(element.tag)>> \o
  (IF element.text # None THEN <<Chars(element.text.s)>> ELSE <<>>) \o
  SerAll(element.kids, 1) \o
  <<Close(element.tag)>>

\* What may follow the document in the body
JunkTokens ==
  {Chars(<<"#">>), RawByte("xFF"), Close("response")}

Junks == UNION {[1..n -> JunkTokens] : n \in 0..MaxJunk}

ContentTypes ==
  {"", "text/xml; charset=utf-8", "text/xml; charset=koi9"}

\* Trailing bytes and declared charsets are explored on the documents of
\* at most one row: decoding and truncation do not look inside the rows.
Responses ==
  { [transport |-> "ok", content_type |-> ct, content |-> Ser(doc) \o junk] :
      doc \in {d \in Docs : NumRowElements(d) <= 1},
      junk \in Junks, ct \in ContentTypes }
  \cup
  { [transport |-> "ok", content_type |-> "", content |-> Ser(doc)] :
      doc \in Docs }
  \cup
  { [transport |-> t, content_type |-> "", content |-> <<>>] :
      t \in {"http_error", "network_error"} }

\* ------------------------------------------------------------------------
\* Decoding
\* ------------------------------------------------------------------------
\* content_type.split('charset=')[1].split(';')[0].strip() when the header
\* has 'charset=' in it, else the default
encoding_of(content_type) ==
  CASE content_type = "text/xml; charset=utf-8" -> "utf-8"
    [] content_type = "text/xml; charset=koi9" -> "koi9"
    [] OTHER -> "windows-1251"

\* bytes.decode(encoding): markup and ASCII text are the same in both
\* codecs; byte FF is a letter in windows-1251 and invalid in utf-8; an
\* unknown codec name is a LookupError.
decode_token(t, encoding) ==
  IF t.k # "byte" THEN t ELSE Chars(<<"ya">>)

decodable(t, encoding) ==
  \/ t.k # "byte"
  \/ encoding = "windows-1251" /\ t.s = <<"xFF">>

decode(content, encoding) ==
  IF encoding \notin {"windows-1251", "utf-8"}
  THEN [exc |-> "LookupError", text |-> <<>>]
  ELSE IF \E i \in 1..Len(content) : ~decodable(content[i], encoding)
  THEN [exc |-> "UnicodeDecodeError", text |-> <<>>]
  ELSE [exc |-> "",
        text |-> [i \in 1..Len(content) |-> decode_token(content[i], encoding)]]

\* ------------------------------------------------------------------------
\* State
\* ------------------------------------------------------------------------
VARIABLES
  module,       \* the entry point of the run: "__init__" or "__main__"
  auth_token,   \* os.getenv('AUTH_TOKEN')
  pc,           \* the statement the run is at
  requests,     \* the number of HTTP requests issued
  response,     \* get_campaigns: the response of requests.get
  xml_content,  \* get_campaigns: the decoded body
  clean_xml,    \* get_campaigns: the truncated text
  root,         \* get_campaigns: the parsed document element
  data,         \* what get_campaigns returned
  campaigns,    \* what parse_campaigns_data returned
  stats,        \* what the statistics printed
  console,      \* the other messages printed, in order
  file,         \* the output JSON file
  err,          \* the exception raised in the run, and where
  outcome       \* how the run ended

vars ==
  <<module, auth_token, pc, requests, response, xml_content, clean_xml, root,
    data, campaigns, stats, console, file, err, outcome>>

Modules == {"__init__", "__main__"}

\* The variable is unset, set to the empty string, or set
AuthTokens == {None, Str(<<>>), Str(<<"t">>)}

NoResponse == [transport |-> "", content_type |-> "", content |-> <<>>]

NoFile == [opened |-> FALSE, name |-> "", metadata |-> FALSE,
           total_campaigns |-> 0, limit |-> 0, campaigns |-> <<>>]

NoErr == [exc |-> "", site |-> ""]

Init ==
  /\ module \in Modules
  /\ auth_token \in AuthTokens
  /\ pc = "start"
  /\ requests = 0
  /\ response = NoResponse
  /\ xml_content = <<>>
  /\ clean_xml = <<>>
  /\ root = NoElement
  /\ data = None
  /\ campaigns = <<>>
  /\ stats = NoStats
  /\ console = <<>>
  /\ file = NoFile
  /\ err = NoErr
  /\ outcome = ""

\* An exception that get_campaigns does not catch, or one raised outside
\* it: main() of __init__.py catches every Exception and prints it, the
\* script body of __main__.py has no handler.
Propagate(exc, site) ==
  /\ err' = [exc |-> exc, site |-> site]
  /\ pc' = "done"
  /\ outcome' = IF module = "__init__" THEN "error_printed" ELSE "uncaught"
  /\ console' = IF module = "__init__"
                THEN Append(console, "error_occurred") ELSE console

\* An except clause of get_campaigns: print the message, return None
ReturnNone(exc, message) ==
  /\ err' = [exc |-> exc, site |-> "get_campaigns"]
  /\ console' = Append(console, message)
  /\ data' = None
  /\ pc' = "returned"
  /\ outcome' = outcome

\* The except clauses of get_campaigns
handlers(m) ==
  IF m = "__init__"
  THEN {"RequestException", "ParseError", "UnicodeDecodeError"}
  ELSE {"RequestException", "ParseError"}

\* if not auth_token
token_missing_is_none(token) == token = None

token_missing(token) == ~Truthy(token)

\* get_campaigns: the credential
GetToken ==
  /\ pc = "start"
  /\ IF token_missing(auth_token)
     THEN /\ Propagate("ValueError", "auth_token")
          /\ UNCHANGED data
     ELSE /\ pc' = "request"
          /\ UNCHANGED <<err, outcome, console, data>>
  /\ UNCHANGED <<module, auth_token, requests, response, xml_content,
                 clean_xml, root, campaigns, stats, file>>

\* get_campaigns: requests.get and raise_for_status
Request ==
  /\ pc = "request"
  /\ requests' = requests + 1
  /\ \E r \in Responses :
       /\ response' = r
       /\ IF r.transport # "ok"
          THEN ReturnNone("RequestException", "request_error")
          ELSE /\ pc' = "decode"
               /\ UNCHANGED <<err, outcome, console, data>>
  /\ UNCHANGED <<module, auth_token, xml_content, clean_xml, root, campaigns,
                 stats, file>>

\* get_campaigns: the encoding, response.content.decode and
\* clean_xml_response
Decode ==
  /\ pc = "decode"
  /\ LET d == decode(response.content, encoding_of(response.content_type))
     IN IF d.exc = ""
        THEN /\ xml_content' = d.text
             /\ clean_xml' = clean_xml_response(d.text)
             /\ pc' = "parse"
             /\ UNCHANGED <<err, outcome, console, data>>
        ELSE /\ UNCHANGED <<xml_content, clean_xml>>
             /\ IF d.exc \in handlers(module)
                THEN ReturnNone(d.exc, "decode_error")
                ELSE Propagate(d.exc, "decode") /\ UNCHANGED data
  /\ UNCHANGED <<module, auth_token, requests, response, root, campaigns,
                 stats, file>>

\* get_campaigns: ET.fromstring, xml_to_dict and the return; the response
\* and the texts are locals and end with the call
Parse ==
  /\ pc = "parse"
  /\ LET p == fromstring(clean_xml)
     IN IF p.exc = ""
        THEN /\ root' = p.root
             /\ data' = xml_to_dict(p.root)
             /\ pc' = "returned"
             /\ UNCHANGED <<err, outcome, console>>
        ELSE /\ root' = root
             /\ ReturnNone(p.exc, "xml_error")
  /\ response' = NoResponse
  /\ xml_content' = <<>>
  /\ clean_xml' = <<>>
  /\ UNCHANGED <<module, auth_token, requests, campaigns, stats, file>>

\* if data
data_ok_always(d) == TRUE

data_ok(d) == Truthy(d)

\* The caller's test of what get_campaigns returned
CheckData ==
  /\ pc = "returned"
  /\ IF data_ok(data)
     THEN /\ pc' = "extract"
          /\ UNCHANGED <<console, outcome>>
     ELSE /\ pc' = "done"
          /\ console' = Append(console, "could_not_get_data")
          /\ outcome' = "no_data"
  /\ UNCHANGED <<module, auth_token, requests, response, xml_content,
                 clean_xml, root, data, campaigns, stats, file, err>>

\* parse_campaigns_data
Extract ==
  /\ pc = "extract"
  /\ LET r == parse_campaigns_data(module, data)
     IN IF r.exc = ""
        THEN /\ campaigns' = r.campaigns
             /\ pc' = "stats"
             /\ UNCHANGED <<err, outcome, console>>
        ELSE /\ campaigns' = campaigns
             /\ Propagate(r.exc, "parse_campaigns_data")
  /\ UNCHANGED <<module, auth_token, requests, response, xml_content,
                 clean_xml, root, data, stats, file>>

\* The statistics: print_campaign_stats under  if campaigns  in
\* __init__.py, the status statistics of the script body in __main__.py
Stats ==
  /\ pc = "stats"
  /\ IF module = "__init__" /\ campaigns = <<>>
     THEN /\ pc' = "done"
          /\ console' = Append(console, "no_campaigns")
          /\ outcome' = "no_campaigns"
          /\ UNCHANGED <<stats, err>>
     ELSE LET r == IF module = "__init__"
                   THEN print_campaign_stats(campaigns)
                   ELSE script_status_stats(campaigns)
          IN IF r.exc = ""
             THEN /\ stats' = r.stats
                  /\ pc' = "save"
                  /\ UNCHANGED <<err, outcome, console>>
             ELSE /\ stats' = stats
                  /\ Propagate(r.exc, "print_campaign_stats")
  /\ UNCHANGED <<module, auth_token, requests, response, xml_content,
                 clean_xml, root, data, campaigns, file>>

\* open(output_file, 'w') and json.dump
Save ==
  /\ pc = "save"
  /\ file' = IF module = "__init__"
             THEN [opened |-> TRUE, name |-> "adfox_campaigns.json",
                   metadata |-> TRUE, total_campaigns |-> Len(campaigns),
                   limit |-> LIMIT, campaigns |-> campaigns]
             ELSE [opened |-> TRUE, name |-> "campaigns.json",
                   metadata |-> FALSE, total_campaigns |-> 0,
                   limit |-> 0, campaigns |-> campaigns]
  /\ console' = Append(console, "saved")
  /\ outcome' = "saved"
  /\ pc' = "done"
  /\ UNCHANGED <<module, auth_token, requests, response, xml_content,
                 clean_xml, root, data, campaigns, stats, err>>

Next ==
  \/ GetToken
  \/ Request
  \/ Decode
  \/ Parse
  \/ CheckData
  \/ Extract
  \/ Stats
  \/ Save

Spec == Init /\ [][Next]_vars

\* ------------------------------------------------------------------------
\* Properties
\* ------------------------------------------------------------------------
\* parse_campaigns_data has returned or raised
Extracted ==
  \/ pc \in {"stats", "save"}
  \/ pc = "done" /\ outcome \in {"saved", "no_campaigns"}
  \/ pc = "done" /\ err.site \in {"parse_campaigns_data", "print_campaign_stats"}

\* C1: when AUTH_TOKEN is absent or empty, the run of either entry point
\* aborts with the configuration error (the ValueError of the credential
\* check) without issuing an HTTP request and without writing the file.
C1_MissingTokenAborts ==
  (auth_token = None \/ auth_token = Str(<<>>)) =>
     /\ requests = 0
     /\ ~file.opened
     /\ pc \in {"start", "done"}
     /\ pc = "done" =>
          /\ err = [exc |-> "ValueError", site |-> "auth_token"]
          /\ outcome \in {"error_printed", "uncaught"}

C1_Witness ==
  /\ auth_token = Str(<<>>)
  /\ pc = "done"
  /\ err.site = "auth_token"
  /\ requests = 0

\* The failure kinds of the error taxonomy
ListedFailure ==
  \/ err.site = "auth_token"
  \/ err.exc \in {"RequestException", "UnicodeDecodeError", "ParseError"}
  \/ /\ err.exc = "ValueError"
     /\ err.site \in {"parse_campaigns_data", "print_campaign_stats"}

\* C2: once a missing credential, a transport error, a decode error, an
\* XML syntax error or a coercion error has occurred, the run is terminal:
\* it only returns to its caller and ends, the output file is never opened
\* and the number of HTTP requests stays what it was (0 for the missing
\* credential, else 1).
C2_FailureIsTerminal ==
  ListedFailure =>
     /\ ~file.opened
     /\ outcome # "saved"
     /\ requests = (IF err.site = "auth_token" THEN 0 ELSE 1)
     /\ pc \in {"returned", "done"}
     /\ pc = "returned" => data = None

C2_Witness ==
  /\ pc = "done"
  /\ err.exc = "ValueError"
  /\ err.site \in {"parse_campaigns_data", "print_campaign_stats"}
  /\ requests = 1
  /\ ~file.opened

\* The rows that parse_campaigns_data finds in a root mapping whose
\* result.data is a mapping
ShapeOk(d) ==
  /\ d.kind = "dict"
  /\ HasKey(d, "result")
  /\ Lookup(d, "result").kind = "dict"
  /\ HasKey(Lookup(d, "result"), "data")
  /\ Lookup(Lookup(d, "result"), "data").kind = "dict"

DataEntries(d) == Lookup(Lookup(d, "result"), "data").ents

RowIndexes(d) ==
  {i \in 1..Len(DataEntries(d)) :
     /\ StartsWith(Spell[DataEntries(d)[i].key], <<"r", "o", "w">>)
     /\ DataEntries(d)[i].val.kind = "dict"}

\* The members of a set of numbers in increasing order
RECURSIVE Ascending(_)
Ascending(S) ==
  IF S = {} THEN <<>>
  ELSE LET m == CHOOSE x \in S : \A y \in S : x <= y
       IN <<m>> \o Ascending(S \ {m})

InputRows(d) ==
  LET idx == Ascending(RowIndexes(d))
  IN [j \in 1..Len(idx) |-> DataEntries(d)[idx[j]].val]

\* A listed field of a row is absent, falsy or an integer literal
Coercible(row) ==
  \A f \in 1..Len(FIELD_NAMES) :
    \/ ~HasKey(row, FIELD_NAMES[f])
    \/ ~Truthy(Lookup(row, FIELD_NAMES[f]))
    \/ PyInt(Lookup(row, FIELD_NAMES[f])).exc = ""

\* C3: the coercer is total over the 22 fields: for rows whose listed
\* fields are absent, empty or integer literals, parse_campaign_value
\* returns, every listed field is then present with an integer value, and
\* the value is 0 where the input was empty, falsy or absent.
C3_CoercionTotal ==
  ( /\ module = "__main__"
    /\ Extracted
    /\ ShapeOk(data)
    /\ \A i \in 1..Len(InputRows(data)) : Coercible(InputRows(data)[i]) ) =>
     /\ err.site # "parse_campaigns_data"
     /\ Len(campaigns) = Len(InputRows(data))
     /\ \A i \in 1..Len(campaigns) : \A f \in 1..Len(FIELD_NAMES) :
          LET name == FIELD_NAMES[f]
              inp == InputRows(data)[i]
          IN /\ HasKey(campaigns[i], name)
             /\ Lookup(campaigns[i], name).kind = "int"
             /\ (~HasKey(inp, name) \/ ~Truthy(Lookup(inp, name))) =>
                  Lookup(campaigns[i], name) = Num(0)

\* The part of C3 that the code has: when every listed field is present
\* the coercer returns the integers, 0 for the empty values.
C3_PresentFieldsCoerced ==
  ( /\ module = "__main__"
    /\ Extracted
    /\ ShapeOk(data)
    /\ \A i \in 1..Len(InputRows(data)) :
         /\ Coercible(InputRows(data)[i])
         /\ \A f \in 1..Len(FIELD_NAMES) :
              HasKey(InputRows(data)[i], FIELD_NAMES[f]) ) =>
     /\ err.site # "parse_campaigns_data"
     /\ Len(campaigns) = Len(InputRows(data))
     /\ \A i \in 1..Len(campaigns) : \A f \in 1..Len(FIELD_NAMES) :
          LET name == FIELD_NAMES[f]
              inp == InputRows(data)[i]
          IN /\ HasKey(campaigns[i], name)
             /\ Lookup(campaigns[i], name).kind = "int"
             /\ ~Truthy(Lookup(inp, name)) =>
                  Lookup(campaigns[i], name) = Num(0)

\* C4: parse_campaigns_data of __init__.py returns the empty sequence for
\* a root mapping without the path result.data, and otherwise exactly the
\* mapping values under the keys that start with 'row', each once, in the
\* order of the source mapping.
C4_ExtractsRowsInOrder ==
  (module = "__init__" /\ Extracted /\ data.kind = "dict") =>
     /\ err.site # "parse_campaigns_data"
     /\ campaigns = IF ShapeOk(data) THEN InputRows(data) ELSE <<>>

\* The part of C4 that the code has: the same for the root mappings whose
\* result and result.data, when present, are mappings.
C4_WellShaped ==
  ( /\ module = "__init__"
    /\ Extracted
    /\ data.kind = "dict"
    /\ HasKey(data, "result") => Lookup(data, "result").kind = "dict"
    /\ (HasKey(data, "result") /\ HasKey(Lookup(data, "result"), "data")) =>
         Lookup(Lookup(data, "result"), "data").kind = "dict" ) =>
     /\ err.site # "parse_campaigns_data"
     /\ campaigns = IF ShapeOk(data) THEN InputRows(data) ELSE <<>>

\* C5: a root mapping whose result.data path is anything but a mapping
\* (result or data a childless element, or a sequence of repeated
\* siblings) is ignored by parse_campaigns_data: it returns without an
\* error and yields no campaigns.
C5_OtherShapesIgnored ==
  (Extracted /\ data.kind = "dict" /\ ~ShapeOk(data)) =>
     /\ err.site # "parse_campaigns_data"
     /\ campaigns = <<>>

\* The positions of the children with a tag, in document order
TagIndexes(kids, tag) == Ascending({i \in 1..Len(kids) : kids[i].tag = tag})

\* v is what the converter is to return for the element: the text of a
\* childless element; else a mapping with one entry per distinct child
\* tag, holding the value of the child when the tag occurs once and the
\* sequence of the values of the k children, in document order, when it
\* occurs k >= 2 times
RECURSIVE Matches(_, _)
Matches(v, element) ==
  IF element.kids = <<>> THEN v = element.text
  ELSE
    /\ v.kind = "dict"
    /\ Len(v.ents) =
         Cardinality({element.kids[i].tag : i \in 1..Len(element.kids)})
    /\ \A i \in 1..Len(element.kids) : HasKey(v, element.kids[i].tag)
    /\ \A e \in 1..Len(v.ents) :
         LET idx == TagIndexes(element.kids, v.ents[e].key)
             val == v.ents[e].val
         IN /\ Len(idx) >= 1
            /\ IF Len(idx) = 1
               THEN Matches(val, element.kids[idx[1]])
               ELSE /\ val.kind = "list"
                    /\ Len(val.items) = Len(idx)
                    /\ \A j \in 1..Len(idx) :
                         Matches(val.items[j], element.kids[idx[j]])

RECURSIVE SubElements(_)
SubElements(element) ==
  {element} \cup
  UNION {SubElements(element.kids[i]) : i \in 1..Len(element.kids)}

\* The element with its first j children only
Prefix(element, j) ==
  El(element.tag, element.text, SubSeq(element.kids, 1, j))

\* C6: for an element with children xml_to_dict returns a mapping with
\* exactly one entry per distinct child tag: the converted child for a tag
\* that occurs once, the sequence of the k converted children in document
\* order for a tag that occurs k >= 2 times; the entry becomes a sequence
\* at the second occurrence (the same holds after every prefix of the
\* children).
C6_OneEntryPerTag ==
  (pc = "returned" /\ root # NoElement) =>
     /\ Matches(data, root)
     /\ \A e \in SubElements(root) : \A j \in 1..Len(e.kids) :
          Matches(xml_to_dict(Prefix(e, j)), Prefix(e, j))

C6_Witness ==
  /\ pc = "returned"
  /\ ShapeOk(data)
  /\ \E i \in 1..Len(DataEntries(data)) :
       /\ DataEntries(data)[i].val.kind = "list"
       /\ Len(DataEntries(data)[i].val.items) = 2
       /\ DataEntries(data)[i].val.items[1].kind = "dict"
       /\ DataEntries(data)[i].val.items[1] # DataEntries(data)[i].val.items[2]
  /\ Len(DataEntries(data)) = 1

HasLiteral(text) == \E i \in 1..Len(text) : text[i] = Close("response")

\* The ends of a well-formed document that the text starts with and that
\* ends in '</response>'
DocEnds(text) ==
  {k \in 1..Len(text) :
     /\ text[k] = Close("response")
     /\ fromstring(SubSeq(text, 1, k)).exc = ""}

\* C7 as stated: whatever follows the well-formed document that ends in
\* '</response>', clean_xml_response returns exactly the document, which
\* then parses; a text without the literal is returned unmodified.
C7_AnyJunkDiscarded ==
  pc = "parse" =>
     /\ \A k \in DocEnds(xml_content) :
          /\ clean_xml = SubSeq(xml_content, 1, k)
          /\ fromstring(clean_xml).exc = ""
     /\ ~HasLiteral(xml_content) => clean_xml = xml_content

\* C7 as amended: when what follows the well-formed document does not
\* contain the literal '</response>', clean_xml_response returns exactly
\* the document, which then parses; a text without the literal is
\* returned unmodified.
C7_JunkWithoutLiteralDiscarded ==
  pc = "parse" =>
     /\ \A k \in DocEnds(xml_content) :
          ~HasLiteral(SubSeq(xml_content, k + 1, Len(xml_content))) =>
             /\ clean_xml = SubSeq(xml_content, 1, k)
             /\ fromstring(clean_xml).exc = ""
     /\ ~HasLiteral(xml_content) => clean_xml = xml_content

C7_Witness ==
  /\ pc = "parse"
  /\ \E k \in DocEnds(xml_content) :
       /\ k < Len(xml_content)
       /\ ~HasLiteral(SubSeq(xml_content, k + 1, Len(xml_content)))
       /\ clean_xml = SubSeq(xml_content, 1, k)
       /\ fromstring(xml_content).exc = "ParseError"

\* The statistics of the run have been printed
StatsPrinted == pc = "save" \/ outcome = "saved"

StatusOf(campaign) == DictGet(campaign, "status", Str(Spell["unknown"]))

\* The label the table gives a status code
ExpectedLabel(status) ==
  CASE status \in {Str(<<"0">>), Num(0)} -> Label("active")
    [] status \in {Str(<<"1">>), Num(1)} -> Label("paused")
    [] status \in {Str(<<"2">>), Num(2)} -> Label("finished")
    [] OTHER -> GenericLabel(status)

RECURSIVE SumCounts(_)
SumCounts(lines) ==
  IF lines = <<>> THEN 0 ELSE Head(lines).count + SumCounts(Tail(lines))

\* The counting of C8: each campaign is counted under its own status, one
\* line per distinct status, and the counts sum to the number of campaigns.
C8_CountsPartition ==
  StatsPrinted =>
     /\ SumCounts(stats.lines) = Len(campaigns)
     /\ \A i, j \in 1..Len(stats.lines) :
          stats.lines[i].status = stats.lines[j].status => i = j
     /\ \A i \in 1..Len(stats.lines) :
          stats.lines[i].count =
            Cardinality({c \in 1..Len(campaigns) :
                           StatusOf(campaigns[c]) = stats.lines[i].status})

\* C8: in the status statistics of either entry point each campaign is
\* counted under exactly one status, the counts sum to the number of
\* campaigns, and each count is printed under the label of the table:
\* code 0 active, 1 paused, 2 finished, any other code under the generic
\* label with the raw code.
C8_StatusLabels ==
  StatsPrinted =>
     /\ C8_CountsPartition
     /\ \A i \in 1..Len(stats.lines) :
          stats.lines[i].label = ExpectedLabel(stats.lines[i].status)

\* impressionsAll or clicksAll of a campaign, 0 when missing or falsy
FieldValue(campaign, field) ==
  IF ~HasKey(campaign, field) \/ ~Truthy(Lookup(campaign, field))
  THEN 0
  ELSE PyInt(Lookup(campaign, field)).n

RECURSIVE SumOf(_, _)
SumOf(cs, field) ==
  IF cs = <<>> THEN 0
  ELSE FieldValue(Head(cs), field) + SumOf(Tail(cs), field)

\* ctr thousandths of a percent are 100 * clicks / impressions to three
\* decimals
IsCtr(ctr, clicks, impressions) ==
  LET d == 2 * (ctr * impressions - 100 * 1000 * clicks)
  IN -impressions <= d /\ d <= impressions

TotalsAreSums ==
  /\ stats.total_impressions = SumOf(campaigns, "impressionsAll")
  /\ stats.total_clicks = SumOf(campaigns, "clicksAll")

FailureMessage(exc) ==
  CASE exc = "RequestException" -> "request_error"
    [] exc = "UnicodeDecodeError" -> "decode_error"
    [] exc = "ParseError" -> "xml_error"
    [] OTHER -> ""

\* C10: in either entry point a transport error, a decode error and an
\* XML syntax error are each caught in get_campaigns, which prints the
\* message of the kind and returns no data; the run then ends with the
\* 'could not get data' message and not with an uncaught exception.
C10_FailuresCaught ==
  (pc = "done" /\ FailureMessage(err.exc) # "") =>
     /\ err.site = "get_campaigns"
     /\ outcome = "no_data"
     /\ console = <<FailureMessage(err.exc), "could_not_get_data">>

\* The part of C10 that the code has: the three kinds in __init__.py, the
\* transport and the XML syntax error in __main__.py.
C10_CaughtWhereHandled ==
  ( /\ pc = "done"
    /\ FailureMessage(err.exc) # ""
    /\ (module = "__init__" \/ err.exc # "UnicodeDecodeError") ) =>
     /\ err.site = "get_campaigns"
     /\ outcome = "no_data"
     /\ console = <<FailureMessage(err.exc), "could_not_get_data">>

====
